---- MODULE Spec2Model ----
(***************************************************************************)
(* OBS Mute Indicator (scripts/OBS_Mute_Indicator.py).                     *)
(*                                                                         *)
(* The script keeps four module globals (debug, source_name,               *)
(* sources_loaded, callback_name) and talks to the OBS host: the source    *)
(* registry, the "mute" signal handler of each source, the private-data    *)
(* slot "__muted__" and the script timer.  The host keeps source names     *)
(* unique, so a source is identified here by its current name; a rename    *)
(* moves the source (and the signal connections it carries) to the new     *)
(* name, a deletion destroys the source together with its signal handler.  *)
(*                                                                         *)
(* A script function is an operator from machine records to machine        *)
(* records; a machine record holds the globals and the host state a        *)
(* function may change, the value it returned (ret), the lines it printed  *)
(* (log) and the signal-handler calls it made (api).                       *)
(***************************************************************************)
EXTENDS Integers, Sequences, FiniteSets, TLC

VARIABLES
    debug,          \* line 28
    source_name,    \* line 29
    sources_loaded, \* line 32
    callback_name,  \* line 33
    timer,          \* TRUE while source_loading is a registered timer callback
    sources,        \* host registry: the names of the sources that exist
    subscribed,     \* the sources whose "mute" signal has mute_callback connected
    private_data,   \* host private data: field -> string
    handles,        \* source references the script holds and has not released
    phase,          \* script lifecycle: "imported", "loaded", "unloaded"
    last,           \* the most recent operation: what was called and what it did
    prev,           \* the operation before it
    waited,         \* a source_loading tick has failed to bind
    bind_fresh,     \* name of the latest successful bind while only mute events followed it
    known_muted,    \* the payload of the latest mute event: <<>> before the first, else <<muted>>
    pc              \* where a handler stands that the host has entered and not yet left

vars == <<debug, source_name, sources_loaded, callback_name, timer, sources,
          subscribed, private_data, handles, phase, last, prev, waited, bind_fresh,
          known_muted, pc>>

\* Python's None (callback_name, and a name argument that is None).
None == "<None>"
\* A lookup that found no source.
NoSource == "<NULL>"
\* A private-data field that was never set.
Unset == "<unset>"

\* No handler is under way: a source_loading tick keeps its local `source` and
\* the outcome of its condition between its steps, script_update keeps nothing.
NoTick == [at |-> "idle", source |-> NoSource, ret |-> FALSE]
Idle == [tick |-> NoTick, update |-> "idle"]

\* The names a source can carry in the host registry.
SourceNames == {"A", "B", "C"}
\* The values the "source" setting can deliver: a name, or "" when none is chosen.
SettingNames == SourceNames \cup {""}
\* The fields of the private data the script uses.
Fields == {"__muted__"}

----------------------------------------------------------------------------
(* The lines the script prints. *)

MsgErrCreate(sn) == "ERROR: Could not create callback for " \o sn
MsgErrRemove(sn) == "ERROR: Could not remove callback for " \o sn
MsgAdded(name) == "Added callback for \"" \o name \o "\""
MsgRemoved(name) == "Removed callback for \"" \o name \o "\""
MsgWaiting == "Waiting to load sources..."
MsgGoodbye == "OBS Mute Indicator Script Unloaded. Goodbye! <3"

----------------------------------------------------------------------------
(* Host API, as the script uses it. *)

\* obs_get_source_by_name: the source carrying that name, or nothing.
obs_get_source_by_name(sn) == IF sn \in sources THEN sn ELSE NoSource

\* obs_get_source_by_name hands out a new reference when it finds the source.
acquire(m, source) ==
    IF source = NoSource
    THEN m
    ELSE [m EXCEPT !.handles = @ + 1, !.refs.acquired = @ + 1]

\* obs_source_release that forgets to give the reference back.
obs_source_release_missing(m, source) == m

\* obs_source_release: gives a reference back; called with None it releases nothing.
obs_source_release(m, source) ==
    IF source = NoSource
    THEN [m EXCEPT !.refs.null_released = @ + 1]
    ELSE [m EXCEPT !.handles = @ - 1, !.refs.released = @ + 1]

\* obs_source_muted: the mute flag the host reports for the source.
obs_source_muted(m, source) == m.host_flag

\* obs_source_get_name: a source is identified by its name.
obs_source_get_name(source) == source

\* signal_handler_connect(handler, "mute", mute_callback)
signal_handler_connect(m, source) ==
    [m EXCEPT !.subscribed = @ \cup {source},
              !.api = Append(@, <<"connect", source>>)]

\* signal_handler_disconnect(handler, "mute", mute_callback)
signal_handler_disconnect(m, source) ==
    [m EXCEPT !.subscribed = @ \ {source},
              !.api = Append(@, <<"disconnect", source>>)]

----------------------------------------------------------------------------
(* Mute Indicator Functions *)

\* The machine record a handler starts from: nothing returned, printed or called yet.
Machine ==
    [debug |-> debug, source_name |-> source_name,
     sources_loaded |-> sources_loaded, callback_name |-> callback_name,
     timer |-> timer, subscribed |-> subscribed, private_data |-> private_data,
     handles |-> handles, source |-> NoSource, host_flag |-> FALSE,
     ret |-> FALSE, bind |-> FALSE, sn |-> None, log |-> <<>>, api |-> <<>>,
     refs |-> [acquired |-> 0, released |-> 0, null_released |-> 0]]

Return(m, value) == [m EXCEPT !.ret = value]

dprint(m, line) ==
    IF m.debug = TRUE THEN [m EXCEPT !.log = Append(@, line)] ELSE m

send_to_private_data(m, field, result) ==
    [m EXCEPT !.private_data = [@ EXCEPT ![field] = result]]

\* write_output with the two words exchanged.
write_output_swapped(m, muted) ==
    LET output == IF muted THEN "unmuted" ELSE "muted"
        result == m.source_name \o " is " \o output
    IN  send_to_private_data(m, "__muted__", result)

write_output(m, muted) ==
    LET output == IF muted THEN "muted" ELSE "unmuted"
        result == m.source_name \o " is " \o output
    IN  send_to_private_data(m, "__muted__", result)

get_muted(m, sn) ==
    LET source == obs_get_source_by_name(sn)
        m1 == acquire(m, source)
    IN  IF source = NoSource
        THEN Return(m1, None)
        ELSE Return(obs_source_release(m1, source), obs_source_muted(m1, source))

mute_callback(m, muted) == write_output(m, muted)

remove_muted_callback(m, sn) ==
    IF sn = None
    THEN Return(m, FALSE)
    ELSE LET source == obs_get_source_by_name(sn)
             m1 == acquire(m, source)
         IN  IF source = NoSource
             THEN Return(dprint(m1, MsgErrRemove(sn)), FALSE)
             ELSE LET m2 == signal_handler_disconnect(m1, source)
                      m3 == dprint(m2, MsgRemoved(obs_source_get_name(source)))
                  IN  Return(obs_source_release(m3, source), TRUE)

\* create_guard without the comparison with the name already bound.
create_guard_none_only(m, sn) == sn = None

\* Line 78: the source hasn't changed or the callback is already set.
create_guard(m, sn) == sn = None \/ sn = m.callback_name

\* release_previous that never removes the callback of the previous source.
release_previous_skipped(m) == m

\* Lines 81-82: the callback of the source bound so far is removed first.
release_previous(m) ==
    IF m.callback_name # None
    THEN remove_muted_callback(m, m.callback_name)
    ELSE m

\* report_missing that prints while the sources are still loading too.
report_missing_always(m, sn) == dprint(m, MsgErrCreate(sn))

\* Lines 87-88: don't print if sources are still loading.
report_missing(m, sn) ==
    IF m.sources_loaded THEN dprint(m, MsgErrCreate(sn)) ELSE m

create_muted_callback(m, sn) ==
    IF create_guard(m, sn)
    THEN Return(m, FALSE)
    ELSE LET m1 == release_previous(m)
             source == obs_get_source_by_name(sn)
             m2 == acquire(m1, source)
         IN  IF source = NoSource
             THEN Return(report_missing(m2, sn), FALSE)
             ELSE LET m3 == signal_handler_connect(m2, source)
                      m4 == [m3 EXCEPT !.callback_name = sn]
                      m5 == dprint(m4, MsgAdded(obs_source_get_name(source)))
                  IN  Return(obs_source_release(m5, source), TRUE)

\* call_create that publishes a status as soon as the bind succeeds.
call_create_publishing(m, sn) ==
    LET r == [create_muted_callback(m, sn) EXCEPT !.bind = TRUE, !.sn = sn]
    IN  IF r.ret THEN write_output(r, FALSE) ELSE r

\* A call of create_muted_callback, noted in the record of the operation.
call_create(m, sn) == [create_muted_callback(m, sn) EXCEPT !.bind = TRUE, !.sn = sn]

\* Lines 144-146: the lookup and the condition of the if, which calls
\* create_muted_callback when the source was found.
source_loading_try(m) ==
    LET source == obs_get_source_by_name(m.source_name)
        m1 == [acquire(m, source) EXCEPT !.source = source]
        m2 == IF source # NoSource THEN call_create(m1, m1.source_name) ELSE m1
    IN  Return(m2, source # NoSource /\ m2.ret)

\* source_loading_end that leaves its timer registered after binding.
source_loading_end_keeps_timer(m) ==
    LET m1 == IF m.ret
              THEN [m EXCEPT !.sources_loaded = TRUE]
              ELSE dprint(m, MsgWaiting)
    IN  obs_source_release(m1, m.source)

\* source_loading_end that presumes the sources loaded after any tick.
source_loading_end_marks_loaded(m) ==
    LET m1 == IF m.ret
              THEN [m EXCEPT !.sources_loaded = TRUE, !.timer = FALSE]
              ELSE [dprint(m, MsgWaiting) EXCEPT !.sources_loaded = TRUE]
    IN  obs_source_release(m1, m.source)

\* Lines 147-152: the two branches of the if, then the release of the lookup.
source_loading_end(m) ==
    LET m1 == IF m.ret
              THEN [m EXCEPT !.sources_loaded = TRUE, !.timer = FALSE]
              ELSE dprint(m, MsgWaiting)
    IN  obs_source_release(m1, m.source)

source_loading(m) == source_loading_end(source_loading_try(m))

----------------------------------------------------------------------------
(* OBS Script Functions *)

\* Lines 177-179: debug and source_name are taken from the settings.
script_update_assign(m, settings) ==
    [m EXCEPT !.debug = settings.debug, !.source_name = settings.source]

\* script_update_bind that binds whether or not the sources are loaded.
script_update_bind_always(m) == call_create(m, m.source_name)

\* script_update_bind that binds only while debug messages are on.
script_update_bind_debug_gated(m) ==
    IF m.sources_loaded /\ m.debug THEN call_create(m, m.source_name) ELSE m

\* Lines 181-182: create 'muted' callback for source, once the sources are loaded.
script_update_bind(m) ==
    IF m.sources_loaded THEN call_create(m, m.source_name) ELSE m

script_update(m, settings) == script_update_bind(script_update_assign(m, settings))

\* script_load that registers no timer.
script_load_no_timer(m) == m

script_load(m) == [m EXCEPT !.timer = TRUE]

script_unload(m) ==
    LET m1 == [m EXCEPT !.timer = FALSE]
        m2 == remove_muted_callback(m1, m1.callback_name)
    IN  dprint(m2, MsgGoodbye)

----------------------------------------------------------------------------
(* The state machine. *)

\* What an operation leaves behind in `last`.
OpRecord(op, arg, m) ==
    [op |-> op, arg |-> arg, bind |-> m.bind, sn |-> m.sn, ret |-> m.ret,
     log |-> m.log, api |-> m.api, refs |-> m.refs]

NoOp == [op |-> "none", arg |-> None, bind |-> FALSE, sn |-> None, ret |-> FALSE,
         log |-> <<>>, api |-> <<>>,
         refs |-> [acquired |-> 0, released |-> 0, null_released |-> 0]]

\* What is kept of the operation before the last one.
Brief(r) == [op |-> r.op, bind |-> r.bind, sn |-> r.sn, ret |-> r.ret]

\* The script's state after an operation that ended in machine record m.
Commit(op, arg, result) ==
    \E m \in {result} :
        /\ debug' = m.debug
        /\ source_name' = m.source_name
        /\ sources_loaded' = m.sources_loaded
        /\ callback_name' = m.callback_name
        /\ timer' = m.timer
        /\ subscribed' = m.subscribed
        /\ private_data' = m.private_data
        /\ handles' = m.handles
        /\ last' = OpRecord(op, arg, m)
        /\ prev' = Brief(last)
        /\ waited' = (waited \/ (op = "source_loading" /\ ~m.ret))
        /\ bind_fresh' = IF m.bind /\ m.ret THEN m.sn
                         ELSE IF op = "mute_callback" THEN bind_fresh
                         ELSE None
        /\ known_muted' = IF op = "mute_callback" THEN <<m.ret>> ELSE known_muted

Init ==
    /\ debug = TRUE
    /\ source_name = ""
    /\ sources_loaded = FALSE
    /\ callback_name = None
    /\ timer = FALSE
    /\ sources \in SUBSET SourceNames
    /\ subscribed = {}
    /\ private_data = [f \in Fields |-> Unset]
    /\ handles = 0
    /\ phase = "imported"
    /\ last = NoOp
    /\ prev = Brief(NoOp)
    /\ waited = FALSE
    /\ bind_fresh = None
    /\ known_muted = <<>>
    /\ pc = Idle

ScriptLoad ==
    /\ phase = "imported"
    /\ phase' = "loaded"
    /\ Commit("script_load", None, script_load(Machine))
    /\ UNCHANGED <<sources, pc>>

ScriptUpdate ==
    /\ phase = "loaded"
    /\ \E d \in BOOLEAN, s \in SettingNames :
          Commit("script_update", [debug |-> d, source |-> s],
                 script_update(Machine, [debug |-> d, source |-> s]))
    /\ UNCHANGED <<sources, phase, pc>>

SourceLoading ==
    /\ timer
    /\ Commit("source_loading", None, source_loading(Machine))
    /\ UNCHANGED <<sources, phase, pc>>

ScriptUnload ==
    /\ phase \in {"loaded", "unloaded"}
    /\ phase' = "unloaded"
    /\ Commit("script_unload", None, script_unload(Machine))
    /\ UNCHANGED <<sources, pc>>

\* The host emits "mute" on a source that carries the subscription.
MuteSignal ==
    /\ \E source \in subscribed, muted \in BOOLEAN :
          Commit("mute_callback", source, Return(mute_callback(Machine, muted), muted))
    /\ UNCHANGED <<sources, phase, pc>>

HostEvent(op) ==
    /\ last' = [NoOp EXCEPT !.op = op]
    /\ prev' = Brief(last)
    /\ bind_fresh' = None
    /\ UNCHANGED <<debug, source_name, sources_loaded, callback_name, timer,
                   private_data, handles, phase, waited, known_muted, pc>>

HostCreate ==
    \E n \in SourceNames \ sources :
        /\ sources' = sources \cup {n}
        /\ UNCHANGED subscribed
        /\ HostEvent("host_create")

HostDelete ==
    \E n \in sources :
        /\ sources' = sources \ {n}
        /\ subscribed' = subscribed \ {n}
        /\ HostEvent("host_delete")

HostRename ==
    \E n \in sources, new \in SourceNames \ sources :
        /\ sources' = (sources \ {n}) \cup {new}
        /\ subscribed' = IF n \in subscribed
                         THEN (subscribed \ {n}) \cup {new}
                         ELSE subscribed
        /\ HostEvent("host_rename")

Next ==
    \/ ScriptLoad
    \/ ScriptUpdate
    \/ SourceLoading
    \/ ScriptUnload
    \/ MuteSignal
    \/ HostCreate
    \/ HostDelete
    \/ HostRename

Spec == Init /\ [][Next]_vars

\* The host fires a registered timer every 10 ms (line 209): a tick that stays
\* possible is eventually taken.
SpecLive == Init /\ [][Next]_vars /\ WF_vars(SourceLoading)

\* The Binding Manager used directly as well, as a caller of the module would:
\* create_muted_callback with any name, None included, in any state.
DirectCreate ==
    /\ \E sn \in SettingNames \cup {None} :
          Commit("create_muted_callback", None, call_create(Machine, sn))
    /\ UNCHANGED <<sources, phase, pc>>

\* get_muted is called by nothing in the script; a caller of the module can.
DirectGetMuted ==
    /\ \E sn \in SourceNames, flag \in BOOLEAN :
          Commit("get_muted", None, get_muted([Machine EXCEPT !.host_flag = flag], sn))
    /\ UNCHANGED <<sources, phase, pc>>

NextAPI ==
    \/ ScriptLoad
    \/ ScriptUpdate
    \/ SourceLoading
    \/ DirectCreate
    \/ DirectGetMuted
    \/ HostCreate
    \/ HostDelete
    \/ HostRename

SpecAPI == Init /\ [][NextAPI]_vars

\* The host need not run the handlers one at a time.  Here a source_loading
\* tick and a script_update each take two steps, and the steps of one can fall
\* between the steps of the other; a mute signal can fall anywhere.
TickBegin ==
    /\ timer
    /\ pc.tick.at = "idle"
    /\ \E r \in {source_loading_try(Machine)} :
          /\ Commit("source_loading_try", None, r)
          /\ pc' = [pc EXCEPT !.tick = [at |-> "end", source |-> r.source, ret |-> r.ret]]
    /\ UNCHANGED <<sources, phase>>

TickEnd ==
    /\ pc.tick.at = "end"
    /\ Commit("source_loading", None,
              source_loading_end([Machine EXCEPT !.source = pc.tick.source,
                                                 !.ret = pc.tick.ret]))
    /\ pc' = [pc EXCEPT !.tick = NoTick]
    /\ UNCHANGED <<sources, phase>>

UpdateBegin ==
    /\ phase = "loaded"
    /\ pc.update = "idle"
    /\ \E d \in BOOLEAN, s \in SettingNames :
          Commit("script_update_assign", [debug |-> d, source |-> s],
                 script_update_assign(Machine, [debug |-> d, source |-> s]))
    /\ pc' = [pc EXCEPT !.update = "bind"]
    /\ UNCHANGED <<sources, phase>>

UpdateEnd ==
    /\ pc.update = "bind"
    /\ Commit("script_update", None, script_update_bind(Machine))
    /\ pc' = [pc EXCEPT !.update = "idle"]
    /\ UNCHANGED <<sources, phase>>

NextRace ==
    \/ ScriptLoad
    \/ TickBegin
    \/ TickEnd
    \/ UpdateBegin
    \/ UpdateEnd
    \/ MuteSignal
    \/ HostCreate

SpecRace == Init /\ [][NextRace]_vars

----------------------------------------------------------------------------
(* Vocabulary of the properties. *)

Slot == private_data["__muted__"]

Status(name, muted) == name \o " is " \o (IF muted THEN "muted" ELSE "unmuted")

IsAdded(line) == \E n \in SourceNames : line = MsgAdded(n)
IsRemoved(line) == \E n \in SourceNames : line = MsgRemoved(n)
IsError(line) ==
    \E n \in SettingNames : line = MsgErrCreate(n) \/ line = MsgErrRemove(n)

Count(log, P(_)) == Cardinality({i \in DOMAIN log : P(log[i])})
Errors(log) == SelectSeq(log, IsError)

\* The last operation called create_muted_callback(sn) with a name.
CalledCreate(r) == r.bind /\ r.sn # None

----------------------------------------------------------------------------
(* C1..C10 *)

\* C1: in every reachable state at most one source has mute_callback connected
\* to its "mute" signal.
C1_AtMostOneSubscription == Cardinality(subscribed) <= 1

C4_UnresolvedLeavesUnbound ==
    (CalledCreate(last) /\ last.sn \notin sources /\ last.sn # callback_name)
    => /\ ~last.ret
       /\ callback_name = None
       /\ subscribed = {}

C6_NullOrEmptyIsNoOp ==
    (last.bind /\ last.sn \in {None, ""})
    => /\ ~last.ret
       /\ last.api = <<>>

\* C7: after a successful bind to name, a mute event carrying true makes the
\* "__muted__" slot exactly "<name> is muted" and a following event carrying
\* false makes it exactly "<name> is unmuted".
C7_PublishedStatus ==
    (last.op = "mute_callback" /\ bind_fresh # None)
    => Slot = Status(bind_fresh, last.ret)

C7_Witness ==
    /\ last.op = "mute_callback" /\ ~last.ret
    /\ prev.op = "mute_callback" /\ prev.ret
    /\ bind_fresh \in SourceNames
    /\ Slot = bind_fresh \o " is unmuted"

\* C8: a source_loading tick whose monitored source does not resolve subscribes
\* nothing and stays registered; the tick on which it resolves connects exactly
\* once, sets sources_loaded and removes the timer; and once sources_loaded is
\* set the timer is never registered, so no further tick occurs.
C8_StartupPoller ==
    /\ [](sources_loaded => ~timer)
    /\ [][(last'.op = "source_loading")
          => IF source_name \in sources
             THEN /\ last'.api = << <<"connect", source_name>> >>
                  /\ subscribed' = subscribed \cup {source_name}
                  /\ callback_name' = source_name
                  /\ sources_loaded' /\ ~timer'
             ELSE /\ last'.api = <<>>
                  /\ subscribed' = subscribed
                  /\ callback_name' = callback_name
                  /\ ~sources_loaded' /\ timer']_vars

C8_Witness ==
    /\ last.op = "source_loading" /\ last.ret
    /\ waited
    /\ sources_loaded /\ ~timer
    /\ subscribed = {source_name}

\* C9: after script_unload returns no source carries the mute subscription and
\* the source_loading timer is not registered.
C9_UnloadTearsDown ==
    (last.op = "script_unload") => (subscribed = {} /\ ~timer)

\* C10: script_unload called twice in a row: the second call performs no
\* unbind, i.e. no signal_handler_disconnect and no "Removed callback" line.
C10_SecondUnloadNoOp ==
    (last.op = "script_unload" /\ prev.op = "script_unload")
    => /\ last.api = <<>>
       /\ Count(last.log, IsRemoved) = 0

----------------------------------------------------------------------------
(* C11..C20 *)

\* C11: sources_loaded starts False, goes from False to True only inside a
\* source_loading tick whose bind succeeded, never returns to False, and once it
\* is True the source_loading timer is never registered again.
C11_BootstrapMonotonic ==
    /\ [](phase = "imported" => ~sources_loaded)
    /\ [][/\ sources_loaded => sources_loaded'
          /\ (~sources_loaded /\ sources_loaded')
                => (last'.op = "source_loading" /\ last'.bind /\ last'.ret)
          /\ sources_loaded => ~timer']_vars

C11_Witness ==
    /\ sources_loaded /\ ~timer
    /\ last.op = "script_unload"
    /\ prev.op = "script_update"

\* C12: script_update always replaces debug and source_name by the values of
\* the settings and calls create_muted_callback(source_name) if and only if
\* sources_loaded is already True; when it is False, callback_name and the
\* subscriptions are left unchanged.
C12_ScriptUpdate ==
    [][(last'.op = "script_update")
        => /\ debug' = last'.arg.debug
           /\ source_name' = last'.arg.source
           /\ last'.bind = sources_loaded
           /\ last'.bind => last'.sn = last'.arg.source
           /\ ~sources_loaded
                => /\ callback_name' = callback_name
                   /\ subscribed' = subscribed
                   /\ last'.api = <<>>]_vars

C12_Witness ==
    /\ last.op = "script_update" /\ ~last.bind
    /\ ~sources_loaded
    /\ source_name \in sources
    /\ subscribed = {}
    /\ callback_name = None

\* C13: whenever the slot has been written, it holds the status built from the
\* current source_name and the last-known mute boolean, also after
\* script_update changed source_name.
C13_StatusOfCurrentName ==
    (known_muted # <<>>) => Slot = Status(source_name, known_muted[1])

\* What an operation leaves apart from the debug flag and the printed lines.
Core(m) ==
    [source_name |-> m.source_name, sources_loaded |-> m.sources_loaded,
     callback_name |-> m.callback_name, timer |-> m.timer,
     subscribed |-> m.subscribed, private_data |-> m.private_data,
     handles |-> m.handles, ret |-> m.ret, bind |-> m.bind, sn |-> m.sn,
     api |-> m.api, refs |-> m.refs]

\* The same machine with the other value of debug.
OtherDebug(m) == [m EXCEPT !.debug = ~@]

\* C14: debug has no effect on correctness: from two states that differ only in
\* debug, every operation fed the same input (script_update with any two debug
\* values) returns the same result, makes the same signal-handler calls and
\* leaves the same source_name, callback_name, sources_loaded, timer,
\* subscriptions and output slot; so two runs fed the same events that differ
\* only in the debug values go through the same values of all of these.
C14_DebugIrrelevant ==
    /\ Core(script_load(Machine)) = Core(script_load(OtherDebug(Machine)))
    /\ Core(source_loading(Machine)) = Core(source_loading(OtherDebug(Machine)))
    /\ Core(script_unload(Machine)) = Core(script_unload(OtherDebug(Machine)))
    /\ \A muted \in BOOLEAN :
          Core(mute_callback(Machine, muted))
             = Core(mute_callback(OtherDebug(Machine), muted))
    /\ \A s \in SettingNames :
          Core(script_update(Machine, [debug |-> TRUE, source |-> s]))
             = Core(script_update(OtherDebug(Machine), [debug |-> FALSE, source |-> s]))

C14_Witness ==
    /\ ~debug
    /\ last.op = "script_update" /\ last.bind /\ last.ret
    /\ last.log = <<>>
    /\ Len(last.api) = 2
    /\ callback_name \in subscribed

\* C15: the "__muted__" slot is written only by the mute-change notification:
\* every other operation leaves it unchanged, a successful bind included.
C15_OnlyMuteCallbackWrites ==
    [][(last'.op # "mute_callback") => private_data' = private_data]_vars

C15_Witness ==
    /\ last.bind /\ last.ret
    /\ last.sn \in subscribed
    /\ Slot = Unset

\* C16: under fair timer ticks after script_load, if the monitored name
\* eventually resolves and stays resolvable (the script staying loaded), then
\* eventually sources_loaded is True, the source carries the subscription and
\* the poller is cancelled; if the name never resolves, the poller never binds,
\* stays registered and keeps ticking for as long as the script is loaded.
C16_PollerLiveness ==
    /\ (<>[](phase = "loaded" /\ source_name \in sources))
          => <>(sources_loaded /\ ~timer /\ source_name \in subscribed)
    /\ ([](source_name \notin sources))
          => [](~sources_loaded /\ subscribed = {})
    /\ ([](source_name \notin sources) /\ <>[](phase = "loaded"))
          => []<>(last.op = "source_loading" /\ ~last.ret)
    /\ []((phase = "loaded" /\ ~sources_loaded) => timer)

C16_Witness ==
    /\ phase = "loaded"
    /\ last.op = "source_loading" /\ last.ret
    /\ prev.op = "host_create"
    /\ waited
    /\ sources_loaded /\ ~timer /\ source_name \in subscribed

\* C17 as stated: every obs_get_source_by_name that returns a source is matched
\* by exactly one obs_source_release, no release is issued for a lookup that
\* returned nothing, and no handle is outstanding when no operation runs.
C17_Original ==
    /\ handles = 0
    /\ last.refs.released = last.refs.acquired
    /\ last.refs.null_released = 0

\* C17 amended: every obs_get_source_by_name that returns a source is matched
\* by exactly one obs_source_release and no handle is outstanding when no
\* operation runs; get_muted, create_muted_callback and remove_muted_callback
\* issue no release for a lookup that returned nothing, while source_loading
\* calls obs_source_release once on the None of its own failed lookup.
C17_HandlesBalanced ==
    /\ handles = 0
    /\ last.refs.released = last.refs.acquired
    /\ last.refs.null_released
          = (IF last.op = "source_loading" /\ ~last.bind THEN 1 ELSE 0)

C17_Witness ==
    /\ last.op = "source_loading" /\ last.ret
    /\ last.refs = [acquired |-> 2, released |-> 2, null_released |-> 0]
    /\ prev.op = "get_muted"
    /\ handles = 0

\* C18: the binding record agrees with the subscriptions: when callback_name is
\* a name that resolves, the source of that name carries the subscription, and
\* when callback_name is None no source carries it.
C18_RecordMatchesSubscription ==
    /\ callback_name \in sources => callback_name \in subscribed
    /\ callback_name = None => subscribed = {}

\* C19: whenever mute_callback fires for a subscribed source, the status it
\* writes is the one of that source: its name, then the muted word.
C19_StatusNamesEmitter ==
    (last.op = "mute_callback") => Slot = Status(last.arg, last.ret)

\* C20: no configuration update is lost across the bootstrap hand-over: once a
\* source_loading tick and a script_update have both finished, in whichever
\* order their steps fell, with sources_loaded True and the latest source_name
\* resolvable, the subscription is on the source named by source_name.
C20_NoUpdateLost ==
    ( /\ pc = Idle
      /\ last.op \in {"source_loading", "script_update"}
      /\ sources_loaded
      /\ source_name \in sources )
        => source_name \in subscribed

====
